---------------------------- MODULE Spec2Model ----------------------------
(***************************************************************************)
(* Model of src/src/lib.rs: the per-frame control loop of the avatar       *)
(* playground (keyboard state, cursor-grab toggle, player state, animation *)
(* index, camera rig).                                                     *)
(*                                                                         *)
(* Numbers.  Angles are whole degrees; mouse deltas are multiples of 10 so *)
(* that -0.1 * delta is a whole number of degrees, and the deltas used are *)
(* multiples of 900 so that every rotation is by a multiple of 90 degrees  *)
(* and is exact.  Lengths are in units of speed * delta_time = 3 * 1/60 =  *)
(* 1/20; a coordinate is a pair <<a, b>> standing for a + b / sqrt(2), the *)
(* second part holding what a clamped diagonal move contributes.  f32      *)
(* rounding is not modelled.                                               *)
(***************************************************************************)
EXTENDS Integers, Sequences, FiniteSets

VARIABLES
    events,          \* EventQueue.0
    keyboard_state,  \* KeyboardState resource
    window_changes,  \* WindowChanges resource
    player_state,    \* PlayerState component of the avatar instance
    player_changed,  \* change tick of PlayerState newer than sync_animation's last run
    anim_state,      \* AnimationState component of the avatar instance
    camera_rig,      \* dolly CameraRig resource: the two drivers and final_transform
    camera,          \* Camera resource
    pc,              \* the system that runs next in the current tick
    ticks,           \* history: number of completed ticks
    supplied,        \* history: number of events the platform has supplied
    pre,             \* history: the state handle_keyboard_input started from in this tick
    drained,         \* history: the queue handle_keyboard_input drained in this tick
    index_writes,    \* history: number of assignments to animation_index
    wc_writes,       \* history: every (cursor_grab, cursor_visible) pair assigned to window_changes
    glog,            \* history: the grab-key events processed
    delivered,       \* history: the requests the window layer took
    order,           \* history: the systems that have run in this tick, in the order they ran
    handled,         \* history: the events the loop of handle_keyboard_input processed in this tick
    handled_total,   \* history: number of events the loop has processed in all
    writers          \* history: for each resource, the systems that changed it in this tick

vars == <<events, keyboard_state, window_changes, player_state, player_changed,
          anim_state, camera_rig, camera, pc, ticks, supplied, pre, drained,
          index_writes, wc_writes, glog, delivered, order, handled,
          handled_total, writers>>

-----------------------------------------------------------------------------
(* Bounds of the model *)

\* ticks run in SpecState
StateMaxTicks == 4
\* events supplied in all in SpecState
StateMaxEvents == 4
\* ticks run in SpecGrab
GrabMaxTicks == 3
\* events supplied in all in SpecGrab
GrabMaxEvents == 4
\* ticks run in SpecCamera
CameraMaxTicks == 2
\* events supplied in all in SpecCamera
CameraMaxEvents == 3
\* ticks run in SpecMove
MoveMaxTicks == 2
\* events supplied in all in SpecMove
MoveMaxEvents == 2

\* ticks run in SpecFrame
FrameMaxTicks == 1
\* events supplied in all in SpecFrame
FrameMaxEvents == 3

-----------------------------------------------------------------------------
(* Option<T> *)

None == <<>>
Some(x) == <<x>>

(* PlayerStates, in the order of the enum's declaration *)
PlayerStatesVariants ==
    << "Falling", "FallingToLanding", "Idle", "LeftTurnFeet", "RightTurnFeet",
       "Running", "RunningJump", "SittingIdle", "SprinttoRoll", "Standin",
       "Jump", "StandingPose", "StartWalking", "Walking" >>

PLAYER_STATES_Swapped ==
    << "Falling", "FallingToLanding", "Idle", "LeftTurnFeet", "RightTurnFeet",
       "Running", "RunningJump", "SittingIdle", "SprinttoRoll", "Jump",
       "Standin", "StandingPose", "StartWalking", "Walking" >>

PLAYER_STATES ==
    << "Falling", "FallingToLanding", "Idle", "LeftTurnFeet", "RightTurnFeet",
       "Running", "RunningJump", "SittingIdle", "SprinttoRoll", "Standin",
       "Jump", "StandingPose", "StartWalking", "Walking" >>

\* the discriminant of a variant: its 0-based place in the enum
Discriminant(v) ==
    (CHOOSE i \in 1..Len(PlayerStatesVariants) : PlayerStatesVariants[i] = v) - 1

\* PLAYER_STATES.iter().position(|p| *p == v): the first 0-based index holding v,
\* None when no element is v
Position(v) ==
    LET hits == {i \in 1..Len(PLAYER_STATES) : PLAYER_STATES[i] = v}
    IN  IF hits = {} THEN None
        ELSE Some((CHOOSE i \in hits : \A j \in hits : i <= j) - 1)

-----------------------------------------------------------------------------
(* Events *)

KeyEv(k, p) == [kind |-> "KeyboardInput", key |-> k, pressed |-> p, delta |-> <<0, 0>>]
MouseEv(dx, dy) == [kind |-> "MouseMotion", key |-> "None", pressed |-> FALSE, delta |-> <<dx, dy>>]
OtherEv == [kind |-> "Other", key |-> "None", pressed |-> FALSE, delta |-> <<0, 0>>]

MovementKeys == {"W", "Up", "A", "Left", "S", "Down", "D", "Right"}

\* the events drawn in each specification
StateEvents == {KeyEv(k, p) : k \in {"Space", "LShift"}, p \in BOOLEAN} \cup {KeyEv("Q", TRUE)}
GrabEvents == {KeyEv("G", p) : p \in BOOLEAN} \cup {MouseEv(-3600, 900), MouseEv(900, -900)}
CameraEvents == {KeyEv("W", TRUE), KeyEv("W", FALSE), KeyEv("D", TRUE), KeyEv("G", TRUE),
                 MouseEv(-900, 0), MouseEv(0, -900)}
MoveEvents == {KeyEv(k, p) : k \in MovementKeys, p \in BOOLEAN}
                 \cup {KeyEv("None", TRUE), OtherEv}
\* events of every arm of the match: those that fall through to `_ => {}`, the
\* releases of the grab, Jump and Run keys, movement keys, and the presses and
\* the mouse motion that give the state something to lose
FrameEvents == {OtherEv, KeyEv("None", TRUE), KeyEv("Q", TRUE),
                KeyEv("G", FALSE), KeyEv("Space", FALSE), KeyEv("LShift", FALSE),
                KeyEv("W", TRUE), KeyEv("Up", FALSE),
                KeyEv("G", TRUE), KeyEv("Space", TRUE), MouseEv(900, -900)}

-----------------------------------------------------------------------------
(* handle_keyboard_input, one event at a time.  s is the state the loop     *)
(* works on: keyboard_state, window_changes, player_state, player_changed,  *)
(* yaw_degrees and pitch_degrees of the YawPitch driver, and the history    *)
(* wc_writes.                                                               *)

MovementField(key) ==
    CASE key \in {"W", "Up"} -> "forwards"
      [] key \in {"A", "Left"} -> "left"
      [] key \in {"S", "Down"} -> "backwards"
      [] key \in {"D", "Right"} -> "right"

OnMovementKey_Sticky(s, key, pressed) ==
    [s EXCEPT !.keyboard_state[MovementField(key)] = @ \/ pressed]

\* keyboard_state.<field> = pressed
OnMovementKey(s, key, pressed) ==
    [s EXCEPT !.keyboard_state[MovementField(key)] = pressed]

OnGrabKey_SetOnly(s, pressed) ==
    IF pressed
    THEN [s EXCEPT !.keyboard_state.cursor_grab = TRUE,
                   !.window_changes = [cursor_grab |-> Some(TRUE),
                                       cursor_visible |-> Some(FALSE)],
                   !.wc_writes = Append(@, <<TRUE, FALSE>>)]
    ELSE s

OnGrabKey_WhileHeld(s, pressed) ==
    [s EXCEPT !.keyboard_state.cursor_grab = pressed,
              !.window_changes = [cursor_grab |-> Some(pressed),
                                  cursor_visible |-> Some(~pressed)],
              !.wc_writes = Append(@, <<pressed, ~pressed>>)]

OnGrabKey_VisibleSame(s, pressed) ==
    IF pressed
    THEN LET grab == ~s.keyboard_state.cursor_grab
         IN  [s EXCEPT !.keyboard_state.cursor_grab = grab,
                       !.window_changes = [cursor_grab |-> Some(grab),
                                           cursor_visible |-> Some(grab)],
                       !.wc_writes = Append(@, <<grab, grab>>)]
    ELSE s

\* VirtualKeyCode::G
OnGrabKey(s, pressed) ==
    IF pressed
    THEN LET grab == ~s.keyboard_state.cursor_grab
         IN  [s EXCEPT !.keyboard_state.cursor_grab = grab,
                       !.window_changes = [cursor_grab |-> Some(grab),
                                           cursor_visible |-> Some(~grab)],
                       !.wc_writes = Append(@, <<grab, ~grab>>)]
    ELSE s

OnJumpKey_IfDiffers(s, pressed) ==
    IF pressed /\ s.player_state # "Jump"
    THEN [s EXCEPT !.player_state = "Jump", !.player_changed = TRUE]
    ELSE s

\* VirtualKeyCode::Space: the assignment goes through Mut<PlayerState>, which
\* marks the component changed whatever value is stored
OnJumpKey(s, pressed) ==
    IF pressed
    THEN [s EXCEPT !.player_state = "Jump", !.player_changed = TRUE]
    ELSE s

OnRunKey_NotWhileJumping(s, pressed) ==
    IF pressed /\ s.player_state # "Jump"
    THEN [s EXCEPT !.player_state = "Running", !.player_changed = TRUE]
    ELSE s

OnRunKey_WhileHeld(s, pressed) ==
    [s EXCEPT !.player_state = IF pressed THEN "Running" ELSE "Idle",
              !.player_changed = TRUE]

\* VirtualKeyCode::LShift
OnRunKey(s, pressed) ==
    IF pressed
    THEN [s EXCEPT !.player_state = "Running", !.player_changed = TRUE]
    ELSE s

\* f32 %: the remainder has the sign of the dividend
Rem(a, n) == IF a >= 0 THEN a % n ELSE -((-a) % n)

Clamp(x, lo, hi) == IF x < lo THEN lo ELSE IF x > hi THEN hi ELSE x

\* YawPitch::rotate_yaw_pitch
rotate_yaw_pitch(s, yaw, pitch) ==
    [s EXCEPT !.yaw_degrees = Rem(@ + yaw, 720),
              !.pitch_degrees = Clamp(@ + pitch, -90, 90)]

\* -0.1 * delta
Sensitivity(d) == -(d \div 10)

OnMouseMotion_Always(s, delta) ==
    rotate_yaw_pitch(s, Sensitivity(delta[1]), Sensitivity(delta[2]))

\* DeviceEvent::MouseMotion
OnMouseMotion(s, delta) ==
    IF s.keyboard_state.cursor_grab
    THEN rotate_yaw_pitch(s, Sensitivity(delta[1]), Sensitivity(delta[2]))
    ELSE s

PlayerStateEntities_NotSpawned == {}

\* the entities that carry a PlayerState: the one avatar instance build spawns
PlayerStateEntities == {"instance"}

\* Query::single_mut succeeds when exactly one entity matches, and panics otherwise
SingleMutOk == Cardinality(PlayerStateEntities) = 1

\* the body of the for loop: the match on one event
HandleEvent(s, e) ==
    CASE e.kind = "KeyboardInput" ->
            (CASE e.key \in MovementKeys -> OnMovementKey(s, e.key, e.pressed)
               [] e.key = "G" -> OnGrabKey(s, e.pressed)
               [] e.key = "Space" ->
                    IF e.pressed /\ ~SingleMutOk THEN [s EXCEPT !.panicked = TRUE]
                    ELSE OnJumpKey(s, e.pressed)
               [] e.key = "LShift" ->
                    IF e.pressed /\ ~SingleMutOk THEN [s EXCEPT !.panicked = TRUE]
                    ELSE OnRunKey(s, e.pressed)
               [] OTHER -> s)
      [] e.kind = "MouseMotion" -> OnMouseMotion(s, e.delta)
      [] OTHER -> s

\* history: the resources whose value differs between the loop states b and a
Touched(b, a) ==
    {r \in {"KeyboardState", "WindowChanges", "PlayerState", "CameraRig"} :
        CASE r = "KeyboardState" -> a.keyboard_state # b.keyboard_state
          [] r = "WindowChanges" -> a.wc_writes # b.wc_writes
          [] r = "PlayerState" -> a.player_state # b.player_state
          [] r = "CameraRig" -> a.yaw_degrees # b.yaw_degrees \/ a.pitch_degrees # b.pitch_degrees}

\* one iteration of the loop, with its history: the event is recorded as handled
LoopStep(s, e) ==
    LET a == HandleEvent(s, e)
    IN  [a EXCEPT !.handled = Append(@, e), !.wrote = @ \cup Touched(s, a)]

RECURSIVE Drain_Lifo(_, _)
Drain_Lifo(s, q) ==
    IF q = <<>> \/ s.panicked THEN s
    ELSE Drain_Lifo(LoopStep(s, q[Len(q)]), SubSeq(q, 1, Len(q) - 1))

\* for event in events.0.drain(..): every event of the queue, in arrival order;
\* a panic ends the loop
RECURSIVE Drain(_, _)
Drain(s, q) ==
    IF q = <<>> \/ s.panicked THEN s
    ELSE Drain(LoopStep(s, Head(q)), Tail(q))

-----------------------------------------------------------------------------
(* Camera arithmetic *)

Zero == <<0, 0>>
Plus(c, d) == <<c[1] + d[1], c[2] + d[2]>>
Times(k, c) == <<k * c[1], k * c[2]>>
VPlus(v, w) == <<Plus(v[1], w[1]), Plus(v[2], w[2]), Plus(v[3], w[3])>>

\* cosine and sine of a multiple of 90 degrees
CosDeg(d) == CASE d % 360 = 0 -> 1 [] d % 360 = 180 -> -1 [] OTHER -> 0
SinDeg(d) == CASE d % 360 = 90 -> 1 [] d % 360 = 270 -> -1 [] OTHER -> 0

Rotate_YawOnly(rot, v) ==
    << Plus(Times(CosDeg(rot.yaw), v[1]), Times(SinDeg(rot.yaw), v[3])),
       v[2],
       Plus(Times(-SinDeg(rot.yaw), v[1]), Times(CosDeg(rot.yaw), v[3])) >>

\* Quat::from_euler(YXZ, yaw, pitch, 0) * v: pitch about X first, then yaw about Y
Rotate(rot, v) ==
    LET p == rot.pitch
        y == rot.yaw
        w == << v[1],
                Plus(Times(CosDeg(p), v[2]), Times(-SinDeg(p), v[3])),
                Plus(Times(SinDeg(p), v[2]), Times(CosDeg(p), v[3])) >>
    IN  << Plus(Times(CosDeg(y), w[1]), Times(SinDeg(y), w[3])),
           w[2],
           Plus(Times(-SinDeg(y), w[1]), Times(CosDeg(y), w[3])) >>

BoolInt(b) == IF b THEN 1 ELSE 0

\* Vec3::new(right, 0, -forwards).clamp_length_max(1.0): a diagonal is scaled
\* to length 1, each of its two components becoming +-1/sqrt(2)
MoveIntent(ks) ==
    LET forwards == BoolInt(ks.forwards) - BoolInt(ks.backwards)
        right == BoolInt(ks.right) - BoolInt(ks.left)
    IN  IF forwards # 0 /\ right # 0
        THEN << <<0, right>>, Zero, <<0, -forwards>> >>
        ELSE << <<right, 0>>, Zero, <<-forwards, 0>> >>

\* CameraRig::update: the drivers in order, Position then YawPitch, none smoothing
RigUpdate(rig) ==
    [rig EXCEPT !.final_transform =
        [position |-> rig.position,
         rotation |-> [yaw |-> rig.yaw_degrees, pitch |-> rig.pitch_degrees]]]

\* Position::new(Vec3::new(0.0, 1.75, 0.0)), in units of 1/20
EyeHeight == 35

\* animation_index of the spawned AnimationState
SpawnAnimationIndex == 5

-----------------------------------------------------------------------------
(* The schedule.  build adds the four systems to one stage with no ordering  *)
(* between them.  The stage's executor starts the systems in the order they  *)
(* were added, each as soon as no system added before it that conflicts with *)
(* it (one writes what the other reads or writes) is still to run; systems   *)
(* that do not conflict may run in either order, or at once, which for the   *)
(* state is the same as one after the other.                                 *)

\* the systems, in the order of the add_system calls
AddOrder == <<"rotate_entities", "handle_keyboard_input", "update_camera", "sync_animation">>

\* what each system's parameters give it access to
Access(sys) ==
    CASE sys = "rotate_entities" ->
            [reads |-> {}, writes |-> {"Instance of Spinning"}]
      [] sys = "handle_keyboard_input" ->
            [reads |-> {},
             writes |-> {"EventQueue", "KeyboardState", "CameraRig", "WindowChanges", "PlayerState"}]
      [] sys = "update_camera" ->
            [reads |-> {"KeyboardState"}, writes |-> {"Camera", "CameraRig"}]
      [] sys = "sync_animation" ->
            [reads |-> {"PlayerState"}, writes |-> {"AnimationState"}]

Conflicts_None(x, y) == FALSE

Conflicts(x, y) ==
    \/ Access(x).writes \cap (Access(y).reads \cup Access(y).writes) # {}
    \/ Access(y).writes \cap Access(x).reads # {}

Place(sys) == CHOOSE i \in 1..Len(AddOrder) : AddOrder[i] = sys

Ran == {order[i] : i \in 1..Len(order)}

MayStart_AnyTime(sys) == pc = "schedule" /\ sys \notin Ran

\* sys has not run in this tick, and every system added before it that
\* conflicts with it has
MayStart(sys) ==
    /\ pc = "schedule"
    /\ sys \notin Ran
    /\ \A i \in 1..(Place(sys) - 1) : Conflicts(AddOrder[i], sys) => AddOrder[i] \in Ran

\* the schedule is over when its four systems have run
AfterSystem(sys) == IF Len(order) + 1 = Len(AddOrder) THEN "window" ELSE "schedule"

Resources == {"KeyboardState", "WindowChanges", "PlayerState", "CameraRig", "Camera", "AnimationState"}

\* history: sys changed the resources rs
Wrote(sys, rs) == [r \in Resources |-> IF r \in rs THEN writers[r] \cup {sys} ELSE writers[r]]

-----------------------------------------------------------------------------
(* The state after SuperconductorPlugin::build *)

NoRequest == [cursor_grab |-> None, cursor_visible |-> None]

\* the history variables pre and drained outside handle_keyboard_input's tick
NoPre == [valid |-> FALSE]

Init ==
    /\ events = <<>>
    /\ keyboard_state = [forwards |-> FALSE, right |-> FALSE, left |-> FALSE,
                         backwards |-> FALSE, cursor_grab |-> FALSE]
    /\ window_changes = NoRequest
    /\ player_state = "Idle"
    /\ player_changed = TRUE
    /\ anim_state = [time |-> "0.5", animation_index |-> SpawnAnimationIndex]
    /\ camera_rig = RigUpdate([position |-> << Zero, <<EyeHeight, 0>>, Zero >>,
                               yaw_degrees |-> 0,
                               pitch_degrees |-> 0,
                               final_transform |-> [position |-> <<Zero, Zero, Zero>>,
                                                    rotation |-> [yaw |-> 0, pitch |-> 0]]])
    /\ camera = [position |-> <<Zero, Zero, Zero>>, rotation |-> [yaw |-> 0, pitch |-> 0]]
    /\ pc = "idle"
    /\ ticks = 0
    /\ supplied = 0
    /\ pre = NoPre
    /\ drained = <<>>
    /\ index_writes = 0
    /\ wc_writes = <<>>
    /\ glog = <<>>
    /\ delivered = <<>>
    /\ order = <<>>
    /\ handled = <<>>
    /\ handled_total = 0
    /\ writers = [r \in Resources |-> {}]

-----------------------------------------------------------------------------
(* The platform pushes an event onto the queue, between two ticks *)

Supply(Evs, maxEvents) ==
    /\ pc = "idle"
    /\ supplied < maxEvents
    /\ \E e \in Evs : events' = Append(events, e)
    /\ supplied' = supplied + 1
    /\ UNCHANGED <<keyboard_state, window_changes, player_state, player_changed,
                   anim_state, camera_rig, camera, pc, ticks, pre, drained,
                   index_writes, wc_writes, glog, delivered, order, handled,
                   handled_total, writers>>

(* run_rendering_loop runs the schedule once for the frame *)
run_schedule(maxTicks) ==
    /\ pc = "idle"
    /\ ticks < maxTicks
    /\ pc' = "schedule"
    /\ UNCHANGED <<events, keyboard_state, window_changes, player_state,
                   player_changed, anim_state, camera_rig, camera, ticks, supplied,
                   pre, drained, index_writes, wc_writes, glog, delivered, order,
                   handled, handled_total, writers>>

(* rotate_entities: the plugin spawns no entity tagged Spinning, so the query *)
(* is empty                                                                   *)
rotate_entities ==
    /\ MayStart("rotate_entities")
    /\ order' = Append(order, "rotate_entities")
    /\ pc' = AfterSystem("rotate_entities")
    /\ UNCHANGED <<events, keyboard_state, window_changes, player_state,
                   player_changed, anim_state, camera_rig, camera, ticks, supplied,
                   pre, drained, index_writes, wc_writes, glog, delivered,
                   handled, handled_total, writers>>

\* the state of the loop of handle_keyboard_input, before its first event
LoopState ==
    [keyboard_state |-> keyboard_state,
     window_changes |-> window_changes,
     player_state |-> player_state,
     player_changed |-> player_changed,
     yaw_degrees |-> camera_rig.yaw_degrees,
     pitch_degrees |-> camera_rig.pitch_degrees,
     panicked |-> FALSE,
     wc_writes |-> wc_writes,
     handled |-> <<>>,
     wrote |-> {}]

\* history: what each grab-key event of the queue q did, starting from s
GrabLog(s, q) ==
    LET idx == {i \in 1..Len(q) : q[i].kind = "KeyboardInput" /\ q[i].key = "G"}
        entry(i) ==
            LET b == Drain(s, SubSeq(q, 1, i - 1))
                a == Drain(s, SubSeq(q, 1, i))
            IN  [pressed |-> q[i].pressed,
                 before |-> b.keyboard_state.cursor_grab,
                 after |-> a.keyboard_state.cursor_grab,
                 writes_before |-> Len(b.wc_writes),
                 writes_after |-> Len(a.wc_writes),
                 tick |-> ticks]
        RECURSIVE build(_)
        build(i) == IF i > Len(q) THEN <<>>
                    ELSE IF i \in idx THEN <<entry(i)>> \o build(i + 1)
                    ELSE build(i + 1)
    IN  build(1)

handle_keyboard_input ==
    /\ MayStart("handle_keyboard_input")
    /\ LET s == Drain(LoopState, events)
       IN  /\ keyboard_state' = s.keyboard_state
           /\ window_changes' = s.window_changes
           /\ player_state' = s.player_state
           /\ player_changed' = s.player_changed
           /\ camera_rig' = [camera_rig EXCEPT !.yaw_degrees = s.yaw_degrees,
                                               !.pitch_degrees = s.pitch_degrees]
           /\ wc_writes' = s.wc_writes
           /\ handled' = s.handled
           /\ handled_total' = handled_total + Len(s.handled)
           /\ writers' = Wrote("handle_keyboard_input", s.wrote)
           /\ pc' = IF s.panicked THEN "panicked" ELSE AfterSystem("handle_keyboard_input")
    /\ events' = <<>>
    /\ pre' = [valid |-> TRUE, keyboard_state |-> keyboard_state,
               player_state |-> player_state, camera_rig |-> camera_rig,
               index_writes |-> index_writes, loop |-> LoopState]
    /\ drained' = events
    /\ glog' = glog \o GrabLog(LoopState, events)
    /\ order' = Append(order, "handle_keyboard_input")
    /\ UNCHANGED <<anim_state, camera, ticks, supplied, index_writes, delivered>>

MoveRotation_Driver(rig) == [yaw |-> rig.yaw_degrees, pitch |-> rig.pitch_degrees]

\* camera_rig.final_transform.rotation, read before camera_rig.update
MoveRotation(rig) == rig.final_transform.rotation

CameraFrom_PositionOnly(rig) ==
    [position |-> rig.final_transform.position, rotation |-> [yaw |-> 0, pitch |-> 0]]

\* camera.position and camera.rotation, copied from the rig after camera_rig.update
CameraFrom(rig) ==
    [position |-> rig.final_transform.position,
     rotation |-> rig.final_transform.rotation]

update_camera ==
    /\ MayStart("update_camera")
    /\ LET move_vec == Rotate(MoveRotation(camera_rig), MoveIntent(keyboard_state))
           rig == RigUpdate([camera_rig EXCEPT !.position = VPlus(@, move_vec)])
       IN  /\ camera_rig' = rig
           /\ camera' = CameraFrom(rig)
           /\ writers' = Wrote("update_camera",
                               (IF rig # camera_rig THEN {"CameraRig"} ELSE {})
                                   \cup (IF CameraFrom(rig) # camera THEN {"Camera"} ELSE {}))
    /\ order' = Append(order, "update_camera")
    /\ pc' = AfterSystem("update_camera")
    /\ UNCHANGED <<events, keyboard_state, window_changes, player_state,
                   player_changed, anim_state, ticks, supplied, pre, drained,
                   index_writes, wc_writes, glog, delivered, handled, handled_total>>

\* the query's Changed<PlayerState> filter: the component was added or mutably
\* dereferenced since this system last ran
ChangedFilter_Always == TRUE

ChangedFilter == player_changed

sync_animation ==
    /\ MayStart("sync_animation")
    /\ IF ChangedFilter
       THEN IF Position(player_state) = None
            THEN /\ pc' = "panicked"
                 /\ UNCHANGED <<anim_state, index_writes, writers>>
            ELSE /\ anim_state' = [anim_state EXCEPT !.animation_index = Position(player_state)[1]]
                 /\ index_writes' = index_writes + 1
                 /\ writers' = Wrote("sync_animation",
                                     IF anim_state.animation_index # Position(player_state)[1]
                                     THEN {"AnimationState"} ELSE {})
                 /\ pc' = AfterSystem("sync_animation")
       ELSE /\ pc' = AfterSystem("sync_animation")
            /\ UNCHANGED <<anim_state, index_writes, writers>>
    /\ player_changed' = FALSE
    /\ order' = Append(order, "sync_animation")
    /\ UNCHANGED <<events, keyboard_state, window_changes, player_state,
                   camera_rig, camera, ticks, supplied, pre, drained,
                   wc_writes, glog, delivered, handled, handled_total>>

(* The window layer, after the systems of the tick: it takes the request, if *)
(* one is set, and leaves the outbox empty                                   *)
take_window_changes ==
    /\ pc = "window"
    /\ delivered' = IF window_changes = NoRequest THEN delivered
                    ELSE Append(delivered, [tick |-> ticks,
                                            cursor_grab |-> window_changes.cursor_grab,
                                            cursor_visible |-> window_changes.cursor_visible])
    /\ window_changes' = NoRequest
    /\ ticks' = ticks + 1
    /\ pre' = NoPre
    /\ drained' = <<>>
    /\ order' = <<>>
    /\ handled' = <<>>
    /\ writers' = [r \in Resources |-> {}]
    /\ pc' = "idle"
    /\ UNCHANGED <<events, keyboard_state, player_state, player_changed,
                   anim_state, camera_rig, camera, supplied, index_writes,
                   wc_writes, glog, handled_total>>

(* One tick: the schedule is started, its four systems run, then the window  *)
(* layer takes the request.                                                  *)
Tick(maxTicks) ==
    \/ run_schedule(maxTicks)
    \/ rotate_entities
    \/ handle_keyboard_input
    \/ update_camera
    \/ sync_animation
    \/ take_window_changes

\* player-state keys
NextState == Supply(StateEvents, StateMaxEvents) \/ Tick(StateMaxTicks)
SpecState == Init /\ [][NextState]_vars

\* the grab key and the mouse
NextGrab == Supply(GrabEvents, GrabMaxEvents) \/ Tick(GrabMaxTicks)
SpecGrab == Init /\ [][NextGrab]_vars

\* the movement keys
NextMove == Supply(MoveEvents, MoveMaxEvents) \/ Tick(MoveMaxTicks)
SpecMove == Init /\ [][NextMove]_vars

\* moving while looking around: W, D, the grab key and the mouse
NextCamera == Supply(CameraEvents, CameraMaxEvents) \/ Tick(CameraMaxTicks)
SpecCamera == Init /\ [][NextCamera]_vars

\* events of every arm
NextFrame == Supply(FrameEvents, FrameMaxEvents) \/ Tick(FrameMaxTicks)
SpecFrame == Init /\ [][NextFrame]_vars

-----------------------------------------------------------------------------
(* Properties *)

\* between two ticks: after build, and after each tick's last step
BetweenTicks == pc = "idle"

\* handle_keyboard_input has run in the current tick
InputHandled == pre.valid

\* sync_animation has run in the current tick
Synced == pc = "window"

JumpPress == KeyEv("Space", TRUE)
RunPress == KeyEv("LShift", TRUE)
GrabPress == KeyEv("G", TRUE)

Max(S) == CHOOSE x \in S : \A y \in S : y <= x

(* C1: at spawn and at the end of every tick, animation_index is the index   *)
(* of the current PlayerState in PLAYER_STATES.                              *)
C1_IndexIsOrdinal ==
    BetweenTicks => Some(anim_state.animation_index) = Position(player_state)

(* C2: the grab key acts on the press edge only: a Pressed event for G that  *)
(* follows another Pressed event for G with no Released between them changes *)
(* neither cursor_grab nor the window-change request; the first Pressed of a *)
(* run flips cursor_grab and writes the request.                             *)
C2_PressEdgeOnly ==
    \A i \in 1..Len(glog) :
        glog[i].pressed =>
            IF i = 1 \/ ~glog[i - 1].pressed
            THEN /\ glog[i].after = ~glog[i].before
                 /\ glog[i].writes_after = glog[i].writes_before + 1
            ELSE /\ glog[i].after = glog[i].before
                 /\ glog[i].writes_after = glog[i].writes_before

\* the places in glog where press, release, press, release starts
PressReleaseTwice ==
    {i \in 1..(Len(glog) - 3) :
        /\ glog[i].pressed /\ ~glog[i + 1].pressed
        /\ glog[i + 2].pressed /\ ~glog[i + 3].pressed}

\* the requests the window layer took in the ticks from..to
TakenIn(from, to) ==
    {k \in 1..Len(delivered) : from <= delivered[k].tick /\ delivered[k].tick <= to}

Negated(d, e) ==
    /\ d.cursor_grab = Some(~e.cursor_grab[1])
    /\ d.cursor_visible = Some(~e.cursor_visible[1])

GrabbedAt(i) ==
    pre.keyboard_state.cursor_grab
        # (Cardinality({j \in 1..(i - 1) : drained[j] = GrabPress}) % 2 = 1)

\* the mouse-motion events of the drained queue that arrived with the toggle on
RECURSIVE GrabbedDeltas(_)
GrabbedDeltas(i) ==
    IF i > Len(drained) THEN <<>>
    ELSE IF drained[i].kind = "MouseMotion" /\ GrabbedAt(i)
         THEN <<drained[i].delta>> \o GrabbedDeltas(i + 1)
         ELSE GrabbedDeltas(i + 1)

RECURSIVE ApplyDeltas(_, _)
ApplyDeltas(yp, ds) ==
    IF ds = <<>> THEN yp
    ELSE ApplyDeltas([yaw_degrees |-> Rem(yp.yaw_degrees - Head(ds)[1] \div 10, 720),
                      pitch_degrees |-> Clamp(yp.pitch_degrees - Head(ds)[2] \div 10, -90, 90)],
                     Tail(ds))

(* C4: a mouse-motion event processed while cursor_grab is false leaves the  *)
(* yaw/pitch driver unchanged and is discarded: after the queue is drained   *)
(* the driver holds exactly the deltas of the events that arrived while the  *)
(* toggle was on, whatever the toggle did afterwards.                        *)
C4_UngrabbedMotionDiscarded ==
    InputHandled =>
        [yaw_degrees |-> camera_rig.yaw_degrees, pitch_degrees |-> camera_rig.pitch_degrees]
            = ApplyDeltas([yaw_degrees |-> pre.camera_rig.yaw_degrees,
                           pitch_degrees |-> pre.camera_rig.pitch_degrees],
                          GrabbedDeltas(1))

\* a mouse motion arrived with the toggle off, the toggle was then turned on,
\* and the driver is where it was
C4_Witness ==
    /\ InputHandled
    /\ ~pre.keyboard_state.cursor_grab
    /\ Len(drained) >= 2
    /\ drained[1].kind = "MouseMotion"
    /\ drained[2] = GrabPress
    /\ keyboard_state.cursor_grab
    /\ camera_rig.yaw_degrees = pre.camera_rig.yaw_degrees
    /\ camera_rig.pitch_degrees = pre.camera_rig.pitch_degrees

\* a Jump or Run press was processed in the current tick
StatePressDrained == \E i \in 1..Len(drained) : drained[i] \in {JumpPress, RunPress}

IdleTicksThenJump ==
    /\ Synced
    /\ ticks >= 1
    /\ supplied = 1
    /\ drained = <<JumpPress>>

C7_EndToEndJump ==
    /\ ticks = 0 /\ BetweenTicks =>
           player_state = "Idle" /\ Some(anim_state.animation_index) = Position("Idle")
    /\ ticks = 0 /\ Synced /\ drained = <<JumpPress>> =>
           player_state = "Jump" /\ anim_state.animation_index = 10

(* C8: the lookup of sync_animation is a bijection from the 14 variants onto *)
(* 0..13 in the order of the enum: every variant is in PLAYER_STATES once,   *)
(* at the index of its place in the enum, and that index is what a write of  *)
(* animation_index stores.                                                   *)
C8_OrdinalBijection ==
    /\ Len(PLAYER_STATES) = 14
    /\ \A i \in 1..Len(PlayerStatesVariants) :
           /\ Position(PlayerStatesVariants[i]) = Some(i - 1)
           /\ Cardinality({j \in 1..Len(PLAYER_STATES) :
                               PLAYER_STATES[j] = PlayerStatesVariants[i]}) = 1
    /\ Synced /\ index_writes # pre.index_writes =>
           anim_state.animation_index = Discriminant(player_state)

\* a write stored 10 for Jump
C8_Witness ==
    /\ Synced
    /\ index_writes # pre.index_writes
    /\ player_state = "Jump"
    /\ anim_state.animation_index = 10

(* C9: after handle_keyboard_input has drained a queue, PlayerState is Jump  *)
(* if the last Pressed event among Space and LShift was Space, Running if it *)
(* was LShift, and what it was before if the queue holds no such press.      *)
C9_LastWriterWins ==
    InputHandled =>
        LET presses == {i \in 1..Len(drained) : drained[i] \in {JumpPress, RunPress}}
        IN  IF presses = {} THEN player_state = pre.player_state
            ELSE IF drained[Max(presses)] = JumpPress THEN player_state = "Jump"
            ELSE player_state = "Running"

\* a Run press after a Jump press in one queue: the state is Running
C9_Witness ==
    /\ InputHandled
    /\ Len(drained) = 2
    /\ drained[1] = JumpPress
    /\ drained[2] = RunPress
    /\ player_state = "Running"

\* the two keys of a movement boolean, as the claim names them
AliasedKeys(field) ==
    CASE field = "forwards" -> {"W", "Up"}
      [] field = "left" -> {"A", "Left"}
      [] field = "backwards" -> {"S", "Down"}
      [] field = "right" -> {"D", "Right"}

(* C10: after handle_keyboard_input has drained a queue, each movement       *)
(* boolean is the pressed flag of the last event for either of its two keys, *)
(* and what it was before if the queue holds no event for them.              *)
C10_MovementIsLastEvent ==
    InputHandled =>
        \A field \in {"forwards", "left", "backwards", "right"} :
            LET hits == {i \in 1..Len(drained) :
                            /\ drained[i].kind = "KeyboardInput"
                            /\ drained[i].key \in AliasedKeys(field)}
            IN  keyboard_state[field] =
                    IF hits = {} THEN pre.keyboard_state[field]
                    ELSE drained[Max(hits)].pressed

\* W pressed and then its alias Up released in one queue: forwards is false
C10_Witness ==
    /\ InputHandled
    /\ drained = <<KeyEv("W", TRUE), KeyEv("Up", FALSE)>>
    /\ ~keyboard_state.forwards
    /\ ~pre.keyboard_state.forwards

-----------------------------------------------------------------------------
(* The queue, the schedule and the resources *)

(* C11: every tick handle_keyboard_input consumes the whole queue once, in   *)
(* arrival order: after it the queue is empty and the events its loop        *)
(* processed are the queue it found, in the same order; every event supplied *)
(* is processed exactly once or is still in the queue, so none is processed  *)
(* again in a later tick.                                                    *)
C11_QueueDrainedOnceInOrder ==
    /\ handled_total + Len(events) = supplied
    /\ InputHandled => events = <<>> /\ handled = drained

\* a later tick drained a queue of two different events, in their order
C11_Witness ==
    /\ InputHandled
    /\ ticks >= 1
    /\ handled_total = 3
    /\ Len(drained) = 2
    /\ drained[1] # drained[2]
    /\ handled = drained
    /\ events = <<>>

\* the place of sys in the order the systems ran in this tick
RanAt(sys) == CHOOSE i \in 1..Len(order) : order[i] = sys

SharedResources == {"KeyboardState", "CameraRig", "PlayerState", "WindowChanges"}

\* the systems other than handle_keyboard_input whose parameters name a shared resource
OtherUsers ==
    {sys \in Ran \ {"handle_keyboard_input"} :
        (Access(sys).reads \cup Access(sys).writes) \cap SharedResources # {}}

InputRanBefore(sys) ==
    /\ "handle_keyboard_input" \in Ran
    /\ RanAt("handle_keyboard_input") < RanAt(sys)

-----------------------------------------------------------------------------
(* The camera *)

\* update_camera has run in the current tick
CameraUpdated == "update_camera" \in Ran

\* only the forwards key is held
ForwardsOnly ==
    /\ keyboard_state.forwards
    /\ ~keyboard_state.backwards /\ ~keyboard_state.left /\ ~keyboard_state.right

\* what update_camera added to the position driver's translation in this tick
\* (handle_keyboard_input leaves the translation alone)
Moved(v) == camera_rig.position = VPlus(pre.camera_rig.position, v)

GrabPresses(q) == Cardinality({i \in 1..Len(q) : q[i] = GrabPress})

(* C15: in every state WindowChanges.cursor_grab is unset or equal to        *)
(* KeyboardState.cursor_grab and WindowChanges.cursor_visible is unset or    *)
(* its negation; handle_keyboard_input writes the two fields together, once  *)
(* for each Pressed event of the grab key it drains and for no other event.  *)
C15_RequestMatchesToggle ==
    /\ window_changes.cursor_grab \in {None, Some(keyboard_state.cursor_grab)}
    /\ window_changes.cursor_visible \in {None, Some(~keyboard_state.cursor_grab)}
    /\ (window_changes.cursor_grab = None) <=> (window_changes.cursor_visible = None)
    /\ InputHandled =>
           /\ Len(wc_writes) = Len(pre.loop.wc_writes) + GrabPresses(drained)
           /\ \A i \in 1..Len(drained) :
                  LET b == Drain(pre.loop, SubSeq(drained, 1, i - 1))
                      a == LoopStep(b, drained[i])
                  IN  IF drained[i] = GrabPress
                      THEN /\ a.window_changes.cursor_grab # None
                           /\ a.window_changes.cursor_visible # None
                           /\ Len(a.wc_writes) = Len(b.wc_writes) + 1
                      ELSE /\ a.window_changes = b.window_changes
                           /\ a.wc_writes = b.wc_writes

\* a tick that drained a release of the grab key, a mouse motion and a press
\* of the grab key, and left the request set
C15_Witness ==
    /\ InputHandled
    /\ KeyEv("G", FALSE) \in {drained[i] : i \in 1..Len(drained)}
    /\ \E i \in 1..Len(drained) : drained[i].kind = "MouseMotion"
    /\ GrabPresses(drained) = 1
    /\ window_changes = [cursor_grab |-> Some(TRUE), cursor_visible |-> Some(FALSE)]
    /\ keyboard_state.cursor_grab

(* C16: the translation of a tick is rotated by the orientation the previous *)
(* tick's update composed (final_transform before this tick's update), not   *)
(* by what mouse deltas made of the yaw/pitch driver in this tick; the       *)
(* update then composes the driver's angles, which the next tick's movement  *)
(* uses.                                                                     *)
C16_MoveUsesPreviousOrientation ==
    CameraUpdated =>
        /\ Moved(Rotate(pre.camera_rig.final_transform.rotation, MoveIntent(keyboard_state)))
        /\ camera_rig.final_transform.rotation =
               [yaw |-> camera_rig.yaw_degrees, pitch |-> camera_rig.pitch_degrees]

\* a mouse delta turned the driver to yaw 90 in this tick, and the tick's
\* movement still went along -z
C16_Witness ==
    /\ CameraUpdated
    /\ ForwardsOnly
    /\ pre.camera_rig.final_transform.rotation = [yaw |-> 0, pitch |-> 0]
    /\ pre.camera_rig.yaw_degrees = 0
    /\ camera_rig.yaw_degrees = 90
    /\ Moved(<< Zero, Zero, <<-1, 0>> >>)

(* C20: at the end of every update_camera call the Camera resource holds the *)
(* position and rotation of the rig's final_transform as that call's update  *)
(* composed it from the drivers, also when no key is held and no mouse delta *)
(* was applied.                                                              *)
C20_CameraIsFinalTransform ==
    CameraUpdated =>
        /\ camera.position = camera_rig.final_transform.position
        /\ camera.rotation = camera_rig.final_transform.rotation
        /\ camera_rig.final_transform.position = camera_rig.position
        /\ camera_rig.final_transform.rotation =
               [yaw |-> camera_rig.yaw_degrees, pitch |-> camera_rig.pitch_degrees]

\* the first tick, with nothing held and no event: the camera now is at the eye
C20_Witness ==
    /\ CameraUpdated
    /\ ticks = 0
    /\ drained = <<>>
    /\ InputHandled
    /\ camera.position = << Zero, <<EyeHeight, 0>>, Zero >>
    /\ camera = CameraFrom(camera_rig)

-----------------------------------------------------------------------------
(* What an event leaves alone *)

\* the loop states b and a agree on KeyboardState, WindowChanges, PlayerState
\* and the angles of the YawPitch driver, and nothing was written between them
SameState(b, a) ==
    /\ a.keyboard_state = b.keyboard_state
    /\ a.window_changes = b.window_changes
    /\ a.wc_writes = b.wc_writes
    /\ a.player_state = b.player_state
    /\ a.player_changed = b.player_changed
    /\ a.yaw_degrees = b.yaw_degrees
    /\ a.pitch_degrees = b.pitch_degrees

\* neither a keyboard event for a recognized key nor a mouse motion, or a
\* Released event of the grab, Jump or Run key
Ignored(e) ==
    \/ e.kind \notin {"KeyboardInput", "MouseMotion"}
    \/ e.kind = "KeyboardInput" /\ e.key \notin MovementKeys \cup {"G", "Space", "LShift"}
    \/ e.kind = "KeyboardInput" /\ e.key \in {"G", "Space", "LShift"} /\ ~e.pressed

(* C17: an event of another kind, a keyboard event with no or an             *)
(* unrecognized key code, and a Released event of the grab, Jump or Run key  *)
(* leave KeyboardState, WindowChanges, PlayerState and the YawPitch angles   *)
(* as they were; a movement-key event changes nothing but its own boolean of *)
(* KeyboardState.  A queue of ignored events only leaves the four as the     *)
(* tick found them.                                                          *)
C17_IgnoredEventsChangeNothing ==
    InputHandled =>
        /\ \A i \in 1..Len(drained) :
               LET b == Drain(pre.loop, SubSeq(drained, 1, i - 1))
                   a == LoopStep(b, drained[i])
                   e == drained[i]
               IN  /\ Ignored(e) => SameState(b, a)
                   /\ e.kind = "KeyboardInput" /\ e.key \in MovementKeys =>
                          /\ SameState([b EXCEPT !.keyboard_state = a.keyboard_state], a)
                          /\ \A f \in DOMAIN b.keyboard_state :
                                 f # MovementField(e.key) =>
                                     a.keyboard_state[f] = b.keyboard_state[f]
                          /\ a.keyboard_state[MovementField(e.key)] = e.pressed
        /\ (\A i \in 1..Len(drained) : Ignored(drained[i])) =>
               /\ keyboard_state = pre.keyboard_state
               /\ window_changes = pre.loop.window_changes
               /\ wc_writes = pre.loop.wc_writes
               /\ player_state = pre.player_state
               /\ camera_rig.yaw_degrees = pre.camera_rig.yaw_degrees
               /\ camera_rig.pitch_degrees = pre.camera_rig.pitch_degrees

\* the grab key pressed, a mouse motion that turned the rig, then the grab
\* key released: the toggle, the request and the angles are still there
C17_Witness ==
    /\ InputHandled
    /\ drained = <<KeyEv("G", TRUE), MouseEv(900, -900), KeyEv("G", FALSE)>>
    /\ keyboard_state.cursor_grab
    /\ window_changes = [cursor_grab |-> Some(TRUE), cursor_visible |-> Some(FALSE)]
    /\ camera_rig.yaw_degrees = -90
    /\ camera_rig.pitch_degrees = 90

-----------------------------------------------------------------------------
(* The avatar never rests again, and no tick aborts *)

(* C18: PlayerState only ever holds Idle, Jump or Running, and no step of    *)
(* the program takes it from Jump or Running back to Idle; inside a queue    *)
(* too, no event takes it back to Idle.                                      *)
C18_NeverIdleAgain ==
    /\ [](player_state \in {"Idle", "Jump", "Running"})
    /\ [][player_state # "Idle" => player_state' # "Idle"]_vars
    /\ [](InputHandled =>
            \A i \in 1..Len(drained) :
                LET b == Drain(pre.loop, SubSeq(drained, 1, i - 1))
                    a == LoopStep(b, drained[i])
                IN  /\ a.player_state \in {"Idle", "Jump", "Running"}
                    /\ b.player_state # "Idle" => a.player_state # "Idle")

\* a later tick that found the avatar running and drained the releases of both
\* keys: it is still running
C18_Witness ==
    /\ InputHandled
    /\ ticks >= 1
    /\ pre.player_state = "Running"
    /\ drained = <<KeyEv("LShift", FALSE), KeyEv("Space", FALSE)>>
    /\ player_state = "Running"

(* C19: no tick aborts, whatever the queue holds: exactly one entity carries *)
(* a PlayerState, so single_mut() finds it on every press of the Jump or Run *)
(* key; every value PlayerState takes is an element of PLAYER_STATES, so     *)
(* position(..).unwrap() finds it; a started tick runs its four systems.     *)
C19_NoTickAborts ==
    /\ pc # "panicked"
    /\ SingleMutOk
    /\ Position(player_state) # None
    /\ InputHandled =>
           /\ handled = drained
           /\ \A i \in 1..Len(drained) :
                  LET a == Drain(pre.loop, SubSeq(drained, 1, i))
                  IN  ~a.panicked /\ Position(a.player_state) # None
    /\ Synced => Ran = {AddOrder[i] : i \in 1..Len(AddOrder)}

\* a tick past the first that drained a press of each key, wrote the index for
\* Running and ran to its end
C19_Witness ==
    /\ Synced
    /\ ticks >= 1
    /\ drained = <<JumpPress, RunPress>>
    /\ index_writes = pre.index_writes + 1
    /\ player_state = "Running"
    /\ anim_state.animation_index = SpawnAnimationIndex

=============================================================================
